---- MODULE Spec2Model ----
(***************************************************************************)
(* A model of src/bot.py: a Telegram bot that takes a PDF, sends its text  *)
(* and images back to the chat, keeps the extracted blocks per user and    *)
(* turns them into a Word document on request.                             *)
(*                                                                         *)
(* A text is a sequence of one-character strings.  A block is the pair the *)
(* code builds: <<"text", chars>> or <<"image", <<bytes, ext>>>>.          *)
(* One handler invocation per session is a small process: pc[s] is its     *)
(* position, loc[s] its local variables, sent[s] the transport calls it    *)
(* has made so far.  Every action is one transport call (an await) or the  *)
(* synchronous code between two of them; the page loop of handle_pdf is    *)
(* one action per page.  proc is the process itself: its environment and   *)
(* the position of main().                                                 *)
(***************************************************************************)
EXTENDS Integers, Sequences, FiniteSets, TLC

Min(a, b) == IF a < b THEN a ELSE b

\* The sequence f as a tuple, which is how TLC reads a sequence fastest.
AsSeq(f) == SubSeq(f, 1, Len(f))

(***************************************************************************)
(* Text normalization, lines 58-61.                                        *)
(***************************************************************************)
NL == "\n"

\* \w of the regular expressions, restricted to the characters of the model.
WordChars == {"a", "b", "c"}

\* What str.strip() removes, restricted to the characters of the model.
SpaceChars == {" ", "\n"}

IsWord(c) == c \in WordChars

IsSpace(c) == c \in SpaceChars

\* The positions of s, in order.
Indices(s) == AsSeq([i \in 1..Len(s) |-> i])

\* The characters of s at the positions idx.
Pick(s, idx) == AsSeq([k \in 1..Len(idx) |-> s[idx[k]]])

\* The pattern (\w)-\n(\w) occurs in s at position i.
Cand(s, i) ==
    /\ i >= 1
    /\ i + 3 <= Len(s)
    /\ IsWord(s[i])
    /\ s[i + 1] = "-"
    /\ s[i + 2] = NL
    /\ IsWord(s[i + 3])

\* re.sub replaces the leftmost non-overlapping occurrences: its scan resumes
\* after the last character of a match, so an occurrence is replaced unless
\* its first character was the last one of a replaced occurrence (two
\* occurrences can overlap in no other way: the characters in between are
\* "-" and "\n", which are not word characters).
RECURSIVE MatchAt(_, _)
MatchAt(s, i) == Cand(s, i) /\ ~MatchAt(s, i - 3)

\* re.sub(r"(\w)-\n(\w)", r"\1\2", s): each replaced occurrence loses its
\* hyphen and its newline.
HyphenJoin(s) ==
    LET Kept(i) == ~MatchAt(s, i - 1) /\ ~MatchAt(s, i - 2)
    IN  Pick(s, SelectSeq(Indices(s), Kept))

\* s.replace("\n", " ")
NewlinesToSpaces(s) == AsSeq([i \in 1..Len(s) |-> IF s[i] = NL THEN " " ELSE s[i]])

\* re.sub(r" {2,}", " ", s): of every run of spaces only the first stays.
CollapseSpaces(s) ==
    LET Kept(i) == ~(s[i] = " " /\ i > 1 /\ s[i - 1] = " ")
    IN  Pick(s, SelectSeq(Indices(s), Kept))

\* s.strip()
Strip(s) ==
    IF \A i \in 1..Len(s) : IsSpace(s[i]) THEN <<>>
    ELSE LET first == CHOOSE i \in 1..Len(s) :
                          ~IsSpace(s[i]) /\ \A j \in 1..(i - 1) : IsSpace(s[j])
             last == CHOOSE i \in 1..Len(s) :
                          ~IsSpace(s[i]) /\ \A j \in (i + 1)..Len(s) : IsSpace(s[j])
         IN  SubSeq(s, first, last)

\* A slip: lines 60 and 61 in the other order, the newlines replaced after
\* the runs of spaces are collapsed and the ends trimmed.
NormalizeNewlinesLast(s) == NewlinesToSpaces(Strip(CollapseSpaces(HyphenJoin(s))))

Normalize(s) == Strip(CollapseSpaces(NewlinesToSpaces(HyphenJoin(s))))

(***************************************************************************)
(* Blocks and images.                                                      *)
(***************************************************************************)
TextBlock(t) == <<"text", t>>

ImageBlock(bytes, ext) == <<"image", <<bytes, ext>>>>

IsText(b) == b[1] = "text"

IsImage(b) == b[1] = "image"

\* The image contents of the model; "X" is an xref that extract_image cannot
\* extract (line 70 raises).
ImageBytes == {"A", "B", "C"}

BadXref == "X"

\* hash(img_bytes), line 73: a 64-bit value, so different contents may share
\* it; here "A" and "C" do.
Hash(bytes) == IF bytes = "B" THEN 2 ELSE 1

\* img_dict['ext'], line 72.
ExtOf(bytes) == IF bytes = "B" THEN "jpx" ELSE "png"

\* doc.add_picture accepts the image (line 122); python-docx knows no jpx.
Embeddable(ext) == ext = "png"

(***************************************************************************)
(* Bounds.                                                                 *)
(***************************************************************************)
\* Inline keyboards alive in one chat.
MaxPrompts == 2

\* Pages of a PDF, and images on all its pages together.
MaxPages == 2

MaxImages == 2

\* Characters of a page text, where every text is tried.
MaxLen == 7

\* Messages a long text block takes.
MaxChunks == 3

(***************************************************************************)
(* State.                                                                  *)
(***************************************************************************)
Sessions == {"u1", "u2"}

VARIABLES
    pc,         \* pc[s]: the position of the handler running for session s
    upd,        \* upd[s]: the update that handler was called with
    loc,        \* loc[s]: the handler's local variables
    sent,       \* sent[s]: the transport calls of the running handler, in order
    store,      \* store[s]: context.user_data['last_pdf_blocks'] of session s
    keyboards,  \* keyboards[s]: the inline keyboards alive in the chat of s
    disk,       \* the files under /tmp, by name
    proc        \* the process: its environment and where main() stands

vars == <<pc, upd, loc, sent, store, keyboards, disk, proc>>

\* No key 'last_pdf_blocks' in user_data.  blocks is what
\* user_data.get('last_pdf_blocks', []) returns.
Absent == [has |-> FALSE, blocks |-> <<>>]

Stored(blocks) == [has |-> TRUE, blocks |-> blocks]

NoFile == [kind |-> "none"]

\* /tmp/<file_name> of the uploads of the model, and /tmp/output.docx.
Paths == {"doc.pdf", "blank.pdf", "output.docx"}

NoUpdate == [kind |-> "none"]

NoLocals ==
    [ pages       |-> <<>>,   \* pdf_doc / reader: the pages of the opened file
      i           |-> 0,      \* pages handled so far
      docx_blocks |-> <<>>,
      sent_hashes |-> {},
      origin      |-> <<>>,   \* history: for each block, <<page, slot>> it came from
      bi          |-> 0,      \* position of the delivery loop in docx_blocks
      off         |-> 0,      \* position of the chunk loop in the text
      doc         |-> <<>>,   \* the Document being assembled
      tmp_files   |-> <<>>,   \* temporary image files created and still there
      entry_store |-> Absent  \* history: store[s] when the handler started
    ]

\* The two buttons, lines 95-96 and 136.
FullKeyboard == {"download_word", "start_over"}

NarrowKeyboard == {"start_over"}

NoKeyboards == [k \in {FullKeyboard, NarrowKeyboard} |-> 0]

Alive(s) == keyboards[s][FullKeyboard] + keyboards[s][NarrowKeyboard]

(***************************************************************************)
(* main, lines 150-178.  An environment variable is <<>> when it is not    *)
(* set (os.getenv gives None) and <<v>> when it is set to the string v.    *)
(***************************************************************************)
Unset == <<>>

\* not token, not host: None and the empty string
Falsy(v) == v = Unset \/ v = <<"">>

\* The default of os.getenv('PORT', 5000), line 170.
DefaultPort == 5000

\* int(...) of line 170: of the strings of the model "8443" is a number.
PortOf(v) == IF v = Unset THEN DefaultPort ELSE 8443

IsNumber(v) == v \in {Unset, <<"8443">>}

Environment(token, host, port) ==
    [TELEGRAM_BOT_TOKEN |-> token, RENDER_EXTERNAL_URL |-> host, PORT |-> port]

Environments ==
    {Environment(token, host, port) :
        token \in {Unset, <<"">>, <<"t">>},
        host \in {Unset, <<"">>, <<"https://h">>},
        port \in {Unset, <<"8443">>, <<"x">>}}

\* The handlers of lines 161-164, in their order.
Handlers == <<"start", "handle_pdf", "download_word_callback", "start_over_callback">>

\* The process as main() is entered.
Started(env) ==
    [env |-> env, pc |-> "token", log |-> <<>>, handlers |-> <<>>, webhook |-> <<>>]

\* lines 151-154
MainToken ==
    /\ proc.pc = "token"
    /\ proc' = IF Falsy(proc.env.TELEGRAM_BOT_TOKEN)
               THEN [proc EXCEPT !.log = Append(@, "no_token"), !.pc = "returned"]
               ELSE [proc EXCEPT !.pc = "build"]
    /\ UNCHANGED <<pc, upd, loc, sent, store, keyboards, disk>>

\* lines 156-164
MainBuild ==
    /\ proc.pc = "build"
    /\ proc' = [proc EXCEPT !.handlers = Handlers, !.pc = "host"]
    /\ UNCHANGED <<pc, upd, loc, sent, store, keyboards, disk>>

\* A slip: main without the test of lines 167-169.
MainHostUnchecked ==
    /\ proc.pc = "host"
    /\ proc' = [proc EXCEPT !.pc = "run"]
    /\ UNCHANGED <<pc, upd, loc, sent, store, keyboards, disk>>

\* lines 166-169
MainHost ==
    /\ proc.pc = "host"
    /\ proc' = IF Falsy(proc.env.RENDER_EXTERNAL_URL)
               THEN [proc EXCEPT !.log = Append(@, "no_url"), !.pc = "returned"]
               ELSE [proc EXCEPT !.pc = "run"]
    /\ UNCHANGED <<pc, upd, loc, sent, store, keyboards, disk>>

\* What run_webhook is called with, lines 170-178.
Webhook(env) ==
    <<[listen |-> "0.0.0.0",
       port |-> PortOf(env.PORT),
       url_path |-> env.TELEGRAM_BOT_TOKEN,
       webhook_url |-> env.RENDER_EXTERNAL_URL \o <<"/">> \o env.TELEGRAM_BOT_TOKEN]>>

\* lines 170-178: int() raises on a PORT that is no number, and main ends
\* with that exception; otherwise run_webhook listens, and does not return.
MainRun ==
    /\ proc.pc = "run"
    /\ proc' = IF IsNumber(proc.env.PORT)
               THEN [proc EXCEPT !.webhook = Webhook(proc.env), !.pc = "listening"]
               ELSE [proc EXCEPT !.pc = "crashed"]
    /\ UNCHANGED <<pc, upd, loc, sent, store, keyboards, disk>>

\* The process once main() of a complete environment has reached
\* run_webhook: the state the handlers start from.
Serving ==
    LET env == Environment(<<"t">>, <<"https://h">>, Unset)
    IN  [Started(env) EXCEPT !.handlers = Handlers, !.webhook = Webhook(env),
                             !.pc = "listening"]

Init ==
    /\ proc = Serving
    /\ pc = [s \in Sessions |-> "idle"]
    /\ upd = [s \in Sessions |-> NoUpdate]
    /\ loc = [s \in Sessions |-> NoLocals]
    /\ sent = [s \in Sessions |-> <<>>]
    /\ store = [s \in Sessions |-> Absent]
    /\ keyboards = [s \in Sessions |-> NoKeyboards]
    /\ disk = [f \in Paths |-> NoFile]

(***************************************************************************)
(* The transport calls a handler makes.                                    *)
(***************************************************************************)
\* reply_text / send_message with one of the fixed texts of the code.
Notice(id) == [kind |-> "notice", id |-> id]

\* send_message with a piece of a text block, line 85.
TextMsg(chunk) == [kind |-> "text", text |-> chunk]

\* send_photo, lines 88-91.
PhotoMsg(bytes) == [kind |-> "photo", photo |-> bytes]

\* send_message with an inline keyboard, lines 98-102.
PromptMsg(buttons) == [kind |-> "prompt", buttons |-> buttons]

\* send_document, lines 129-133.
DocumentMsg(name, body) == [kind |-> "document", filename |-> name, body |-> body]

\* query.answer()
AnswerMsg == [kind |-> "answer"]

\* query.edit_message_text, line 110: the text replaces the prompt, and
\* with no reply_markup given the keyboard goes.
EditTextMsg(id) == [kind |-> "edit_text", id |-> id]

\* query.edit_message_reply_markup, lines 138 and 144.
EditMarkupMsg(buttons) == [kind |-> "edit_markup", buttons |-> buttons]

Say(s, m) == [sent EXCEPT ![s] = Append(@, m)]

Goto(s, p) == [pc EXCEPT ![s] = p]

\* Application.process_update handles one update to its end before the next
\* (the application is built without concurrent_updates, lines 156-160).
Free == \A t \in Sessions : pc[t] = "idle"

\* The handler of s is called with update u.
Dispatch(s, u, first) ==
    /\ pc' = Goto(s, first)
    /\ upd' = [upd EXCEPT ![s] = u]
    /\ loc' = [loc EXCEPT ![s] = [NoLocals EXCEPT !.entry_store = store[s]]]
    /\ sent' = [sent EXCEPT ![s] = <<>>]
    /\ UNCHANGED <<store, keyboards, disk, proc>>

(***************************************************************************)
(* start, lines 27-30.                                                     *)
(***************************************************************************)
StartCommand(s) ==
    /\ Free
    /\ Dispatch(s, [kind |-> "command"], "st_reply")

StReply(s) ==
    /\ pc[s] = "st_reply"
    /\ sent' = Say(s, Notice("greeting"))
    /\ pc' = Goto(s, "done")
    /\ UNCHANGED <<upd, loc, store, keyboards, disk, proc>>

(***************************************************************************)
(* handle_pdf, lines 32-102.                                               *)
(***************************************************************************)
ChunkSize == 4096

\* One page: what reader.pages[i].extract_text() does (returns text, or
\* raises when ok is FALSE) and what pdf_doc[i].get_images lists.
Page(ok, text, images) == [ok |-> ok, text |-> text, images |-> images]

\* An uploaded document: update.message.document and the bytes behind it.
Upload(mime, name, readable, pages) ==
    [kind |-> "document", mime_type |-> mime, file_name |-> name,
     readable |-> readable, pages |-> pages]

UploadedFile(u) == [kind |-> "upload", readable |-> u.readable, pages |-> u.pages]

\* A document arrives: MessageHandler(filters.Document.ALL, handle_pdf).
Arrive(s, u) ==
    /\ Free
    /\ Alive(s) < MaxPrompts
    /\ Dispatch(s, u, "hp_notice")

\* line 33
HpNotice(s) ==
    /\ pc[s] = "hp_notice"
    /\ sent' = Say(s, Notice("processing"))
    /\ pc' = Goto(s, "hp_mime")
    /\ UNCHANGED <<upd, loc, store, keyboards, disk, proc>>

\* lines 35-41: not a PDF
HpReject(s) ==
    /\ pc[s] = "hp_mime"
    /\ upd[s].mime_type # "application/pdf"
    /\ sent' = Say(s, Notice("not_pdf"))
    /\ pc' = Goto(s, "done")
    /\ UNCHANGED <<upd, loc, store, keyboards, disk, proc>>

\* A slip: handle_pdf without the test of line 36.
HpDownloadAny(s) ==
    /\ pc[s] = "hp_mime"
    /\ disk' = [disk EXCEPT ![upd[s].file_name] = UploadedFile(upd[s])]
    /\ pc' = Goto(s, "hp_open")
    /\ UNCHANGED <<upd, loc, sent, store, keyboards, proc>>

\* lines 43-45: the file is fetched and written to /tmp/<file_name>
HpDownload(s) ==
    /\ pc[s] = "hp_mime"
    /\ upd[s].mime_type = "application/pdf"
    /\ disk' = [disk EXCEPT ![upd[s].file_name] = UploadedFile(upd[s])]
    /\ pc' = Goto(s, "hp_open")
    /\ UNCHANGED <<upd, loc, sent, store, keyboards, proc>>

\* A slip: the failure of lines 48-49 caught and taken for a document of no
\* pages.
HpOpenLenient(s) ==
    /\ pc[s] = "hp_open"
    /\ LET f == disk[upd[s].file_name]
       IN  loc' = [loc EXCEPT ![s].pages =
                       IF f.kind = "upload" /\ f.readable THEN f.pages ELSE <<>>]
    /\ pc' = Goto(s, "hp_page")
    /\ UNCHANGED <<upd, sent, store, keyboards, disk, proc>>

\* lines 48-52: both readers open the file; either raises on a file that is
\* no PDF, and the handler ends there.
HpOpen(s) ==
    /\ pc[s] = "hp_open"
    /\ LET f == disk[upd[s].file_name]
       IN  IF f.kind = "upload" /\ f.readable
           THEN /\ loc' = [loc EXCEPT ![s].pages = f.pages]
                /\ pc' = Goto(s, "hp_page")
           ELSE /\ pc' = Goto(s, "failed")
                /\ UNCHANGED loc
    /\ UNCHANGED <<upd, sent, store, keyboards, disk, proc>>

\* lines 56-63: the text of a page; an exception leaves page_text = "".
PageText(page) == IF page.ok THEN Normalize(page.text) ELSE <<>>

\* lines 64-65
WithText(r, text, pageNo) ==
    IF text # <<>>
    THEN [r EXCEPT !.docx_blocks = Append(@, TextBlock(text)),
                   !.origin = Append(@, <<pageNo, 0>>)]
    ELSE r

\* A slip: line 76 left out, so that no hash is ever recorded.
WithImageForgets(r, bytes, pageNo, k) ==
    IF Hash(bytes) \notin r.sent_hashes
    THEN [r EXCEPT !.docx_blocks = Append(@, ImageBlock(bytes, ExtOf(bytes))),
                   !.origin = Append(@, <<pageNo, k>>)]
    ELSE r

\* lines 69-76: one image of the page
WithImage(r, bytes, pageNo, k) ==
    IF Hash(bytes) \notin r.sent_hashes
    THEN [r EXCEPT !.docx_blocks = Append(@, ImageBlock(bytes, ExtOf(bytes))),
                   !.origin = Append(@, <<pageNo, k>>),
                   !.sent_hashes = @ \cup {Hash(bytes)}]
    ELSE r

\* line 68: the images of the page from the k-th on; raised is set when
\* extract_image raises, which ends the loop and the handler.
RECURSIVE WithImages(_, _, _, _)
WithImages(r, images, pageNo, k) ==
    IF k > Len(images) THEN [raised |-> FALSE, r |-> r]
    ELSE IF images[k] = BadXref THEN [raised |-> TRUE, r |-> r]
    ELSE WithImages(WithImage(r, images[k], pageNo, k), images, pageNo, k + 1)

\* A slip: the image loop of lines 68-76 ahead of the text of lines 56-65.
HpPageImagesFirst(s) ==
    /\ pc[s] = "hp_page"
    /\ loc[s].i < Len(loc[s].pages)
    /\ LET pageNo == loc[s].i + 1
           page == loc[s].pages[pageNo]
           res == WithImages(loc[s], page.images, pageNo, 1)
       IN  IF res.raised
           THEN /\ pc' = Goto(s, "failed")
                /\ UNCHANGED loc
           ELSE /\ loc' = [loc EXCEPT ![s] =
                              [WithText(res.r, PageText(page), pageNo) EXCEPT !.i = pageNo]]
                /\ UNCHANGED pc
    /\ UNCHANGED <<upd, sent, store, keyboards, disk, proc>>

\* A slip: line 79 inside the page loop, so that every page is stored as
\* soon as it is read.
HpPageStores(s) ==
    /\ pc[s] = "hp_page"
    /\ loc[s].i < Len(loc[s].pages)
    /\ LET pageNo == loc[s].i + 1
           page == loc[s].pages[pageNo]
           res == WithImages(WithText(loc[s], PageText(page), pageNo),
                             page.images, pageNo, 1)
       IN  IF res.raised
           THEN /\ pc' = Goto(s, "failed")
                /\ UNCHANGED <<loc, store>>
           ELSE /\ loc' = [loc EXCEPT ![s] = [res.r EXCEPT !.i = pageNo]]
                /\ store' = [store EXCEPT ![s] = Stored(res.r.docx_blocks)]
                /\ UNCHANGED pc
    /\ UNCHANGED <<upd, sent, keyboards, disk, proc>>

\* A slip: lines 58-61 without the try of lines 57-63, so that a page whose
\* text cannot be extracted ends the handler.
HpPageUnguarded(s) ==
    /\ pc[s] = "hp_page"
    /\ loc[s].i < Len(loc[s].pages)
    /\ LET pageNo == loc[s].i + 1
           page == loc[s].pages[pageNo]
           res == WithImages(WithText(loc[s], PageText(page), pageNo),
                             page.images, pageNo, 1)
       IN  IF res.raised \/ ~page.ok
           THEN /\ pc' = Goto(s, "failed")
                /\ UNCHANGED loc
           ELSE /\ loc' = [loc EXCEPT ![s] = [res.r EXCEPT !.i = pageNo]]
                /\ UNCHANGED pc
    /\ UNCHANGED <<upd, sent, store, keyboards, disk, proc>>

\* lines 54-76: one turn of the page loop
HpPage(s) ==
    /\ pc[s] = "hp_page"
    /\ loc[s].i < Len(loc[s].pages)
    /\ LET pageNo == loc[s].i + 1
           page == loc[s].pages[pageNo]
           res == WithImages(WithText(loc[s], PageText(page), pageNo),
                             page.images, pageNo, 1)
       IN  IF res.raised
           THEN /\ pc' = Goto(s, "failed")
                /\ UNCHANGED loc
           ELSE /\ loc' = [loc EXCEPT ![s] = [res.r EXCEPT !.i = pageNo]]
                /\ UNCHANGED pc
    /\ UNCHANGED <<upd, sent, store, keyboards, disk, proc>>

\* A slip: the write of line 79 put off until after the prompt of lines
\* 98-102.
HpStoreDeferred(s) ==
    /\ pc[s] = "hp_page"
    /\ loc[s].i = Len(loc[s].pages)
    /\ loc' = [loc EXCEPT ![s].bi = 1, ![s].off = 0]
    /\ pc' = Goto(s, "hp_send")
    /\ UNCHANGED <<upd, sent, store, keyboards, disk, proc>>

\* line 79, after the last page
HpStore(s) ==
    /\ pc[s] = "hp_page"
    /\ loc[s].i = Len(loc[s].pages)
    /\ store' = [store EXCEPT ![s] = Stored(loc[s].docx_blocks)]
    /\ loc' = [loc EXCEPT ![s].bi = 1, ![s].off = 0]
    /\ pc' = Goto(s, "hp_send")
    /\ UNCHANGED <<upd, sent, keyboards, disk, proc>>

\* block_val[i:i+4096], line 85
ChunkAt(text, off) == SubSeq(text, off + 1, Min(off + ChunkSize, Len(text)))

\* A slip: a turn of the chunk loop too many when the length is a multiple of
\* the chunk size.
MoreChunksInclusive(text, off) == off + ChunkSize <= Len(text)

\* range(0, len(block_val), 4096), line 84: is there a turn after off
MoreChunks(text, off) == off + ChunkSize < Len(text)

\* lines 82-91: one transport call of the delivery loop
HpSend(s) ==
    /\ pc[s] = "hp_send"
    /\ loc[s].bi <= Len(loc[s].docx_blocks)
    /\ LET b == loc[s].docx_blocks[loc[s].bi]
       IN  IF IsText(b)
           THEN /\ sent' = Say(s, TextMsg(ChunkAt(b[2], loc[s].off)))
                /\ loc' = IF MoreChunks(b[2], loc[s].off)
                          THEN [loc EXCEPT ![s].off = @ + ChunkSize]
                          ELSE [loc EXCEPT ![s].bi = @ + 1, ![s].off = 0]
           ELSE /\ sent' = Say(s, PhotoMsg(b[2][1]))
                /\ loc' = [loc EXCEPT ![s].bi = @ + 1]
    /\ UNCHANGED <<pc, upd, store, keyboards, disk, proc>>

\* A slip: the prompt of lines 94-102 not kept behind the delivery loop.
HpPromptEarly(s) ==
    /\ pc[s] = "hp_send"
    /\ sent' = Say(s, PromptMsg(FullKeyboard))
    /\ keyboards' = [keyboards EXCEPT ![s][FullKeyboard] = @ + 1]
    /\ pc' = Goto(s, "done")
    /\ UNCHANGED <<upd, loc, store, disk, proc>>

\* lines 94-102, after the last block
HpPrompt(s) ==
    /\ pc[s] = "hp_send"
    /\ loc[s].bi > Len(loc[s].docx_blocks)
    /\ sent' = Say(s, PromptMsg(FullKeyboard))
    /\ keyboards' = [keyboards EXCEPT ![s][FullKeyboard] = @ + 1]
    /\ pc' = Goto(s, "done")
    /\ UNCHANGED <<upd, loc, store, disk, proc>>

\* The handler returns, or its exception reaches the application, which
\* logs it: the invocation and its locals are gone.
Return(s) ==
    /\ pc[s] \in {"done", "failed"}
    /\ pc' = Goto(s, "idle")
    /\ upd' = [upd EXCEPT ![s] = NoUpdate]
    /\ loc' = [loc EXCEPT ![s] = NoLocals]
    /\ sent' = [sent EXCEPT ![s] = <<>>]
    /\ UNCHANGED <<store, keyboards, disk, proc>>

(***************************************************************************)
(* The callback queries, lines 163-164.                                    *)
(***************************************************************************)
\* A callback datum is a sequence of pieces: <<"download_word">> is the
\* datum of the download button.
DownloadPattern == <<"download_word">>

StartOverPattern == <<"start_over">>

\* CallbackQueryHandler(pattern=...) applies re.match, which matches at the
\* start of the datum.
Matches(pattern, data) ==
    /\ Len(pattern) <= Len(data)
    /\ SubSeq(data, 1, Len(pattern)) = pattern

\* The first handler whose pattern matches, in the order of lines 163-164.
Route(data) ==
    IF Matches(DownloadPattern, data) THEN "dw_answer"
    ELSE IF Matches(StartOverPattern, data) THEN "so_answer"
    ELSE "idle"

\* A button of a keyboard alive in the chat is pressed.
Press(s, keyboard, button) ==
    /\ Free
    /\ keyboards[s][keyboard] > 0
    /\ button \in keyboard
    /\ Route(<<button>>) # "idle"
    /\ Dispatch(s, [kind |-> "callback", data |-> <<button>>, keyboard |-> keyboard],
                Route(<<button>>))

\* The keyboard of the message the query came from is replaced.
Rekey(s, buttons) ==
    LET gone == [keyboards EXCEPT ![s][upd[s].keyboard] = @ - 1]
    IN  IF buttons = {} THEN gone
        ELSE [gone EXCEPT ![s][buttons] = @ + 1]

(***************************************************************************)
(* download_word_callback, lines 104-138.                                  *)
(***************************************************************************)
\* line 106
DwAnswer(s) ==
    /\ pc[s] = "dw_answer"
    /\ sent' = Say(s, AnswerMsg)
    /\ pc' = Goto(s, "dw_read")
    /\ UNCHANGED <<upd, loc, store, keyboards, disk, proc>>

\* lines 107-110: nothing stored
DwNoData(s) ==
    /\ pc[s] = "dw_read"
    /\ store[s].blocks = <<>>
    /\ sent' = Say(s, EditTextMsg("no_data"))
    /\ keyboards' = Rekey(s, {})
    /\ pc' = Goto(s, "done")
    /\ UNCHANGED <<upd, loc, store, disk, proc>>

\* A slip: the paragraph cut to one message's length, as the delivery of
\* line 85 cuts its pieces.
ElementFirstChunk(b) ==
    IF IsText(b) THEN <<"paragraph", ChunkAt(b[2], 0)>> ELSE <<"picture", b[2]>>

\* lines 114-122: what a block adds to the document
Element(b) == IF IsText(b) THEN <<"paragraph", b[2]>> ELSE <<"picture", b[2]>>

\* A slip: the try of lines 121-124 around the loop of line 113, so that the
\* first image add_picture cannot read ends the assembly.
AssembleUntilFailure(blocks) ==
    LET all == [k \in 1..Len(blocks) |-> Element(blocks[k])]
        Fails(k) == all[k][1] = "picture" /\ ~Embeddable(all[k][2][2])
        upto == IF \E k \in 1..Len(all) : Fails(k)
                THEN (CHOOSE k \in 1..Len(all) :
                          Fails(k) /\ \A j \in 1..(k - 1) : ~Fails(j)) - 1
                ELSE Len(all)
    IN  SubSeq(all, 1, upto)

\* lines 113-124: add_picture raises on an image it cannot read, and the
\* image is left out.
Assemble(blocks) ==
    LET all == [k \in 1..Len(blocks) |-> Element(blocks[k])]
        Added(e) == e[1] = "paragraph" \/ Embeddable(e[2][2])
    IN  SelectSeq(all, Added)

\* lines 118-120: NamedTemporaryFile(delete=False), one per image block,
\* named by its suffix and content; nothing removes it.
TempFiles(blocks) ==
    LET images == SelectSeq(blocks, IsImage)
    IN  [k \in 1..Len(images) |-> <<"." \o images[k][2][2], images[k][2][1]>>]

\* A slip: download_word_callback without the test of line 109.
DwAssembleAlways(s) ==
    /\ pc[s] = "dw_read"
    /\ LET doc == Assemble(store[s].blocks)
       IN  /\ loc' = [loc EXCEPT ![s].docx_blocks = store[s].blocks,
                                 ![s].doc = doc,
                                 ![s].tmp_files = TempFiles(store[s].blocks)]
           /\ disk' = [disk EXCEPT !["output.docx"] = [kind |-> "docx", body |-> doc]]
    /\ pc' = Goto(s, "dw_send")
    /\ UNCHANGED <<upd, sent, store, keyboards, proc>>

\* lines 107-127: the document is assembled and saved to /tmp/output.docx
DwAssemble(s) ==
    /\ pc[s] = "dw_read"
    /\ store[s].blocks # <<>>
    /\ LET doc == Assemble(store[s].blocks)
       IN  /\ loc' = [loc EXCEPT ![s].docx_blocks = store[s].blocks,
                                 ![s].doc = doc,
                                 ![s].tmp_files = TempFiles(store[s].blocks)]
           /\ disk' = [disk EXCEPT !["output.docx"] = [kind |-> "docx", body |-> doc]]
    /\ pc' = Goto(s, "dw_send")
    /\ UNCHANGED <<upd, sent, store, keyboards, proc>>

\* lines 129-133: the file at /tmp/output.docx is sent
DwSend(s) ==
    /\ pc[s] = "dw_send"
    /\ sent' = Say(s, DocumentMsg("converted.docx", disk["output.docx"].body))
    /\ pc' = Goto(s, "dw_markup")
    /\ UNCHANGED <<upd, loc, store, keyboards, disk, proc>>

\* A slip: the keyboard of line 135 left out of line 138, which removes the
\* keyboard as line 144 does.
DwMarkupRemoves(s) ==
    /\ pc[s] = "dw_markup"
    /\ sent' = Say(s, EditMarkupMsg({}))
    /\ keyboards' = Rekey(s, {})
    /\ pc' = Goto(s, "done")
    /\ UNCHANGED <<upd, loc, store, disk, proc>>

\* lines 135-138
DwMarkup(s) ==
    /\ pc[s] = "dw_markup"
    /\ sent' = Say(s, EditMarkupMsg(NarrowKeyboard))
    /\ keyboards' = Rekey(s, NarrowKeyboard)
    /\ pc' = Goto(s, "done")
    /\ UNCHANGED <<upd, loc, store, disk, proc>>

(***************************************************************************)
(* start_over_callback, lines 140-148.                                     *)
(***************************************************************************)
\* line 142
SoAnswer(s) ==
    /\ pc[s] = "so_answer"
    /\ sent' = Say(s, AnswerMsg)
    /\ pc' = Goto(s, "so_pop")
    /\ UNCHANGED <<upd, loc, store, keyboards, disk, proc>>

\* A slip: start_over_callback without the pop of line 143.
SoPopKeeps(s) ==
    /\ pc[s] = "so_pop"
    /\ pc' = Goto(s, "so_markup")
    /\ UNCHANGED <<upd, loc, sent, store, keyboards, disk, proc>>

\* line 143
SoPop(s) ==
    /\ pc[s] = "so_pop"
    /\ store' = [store EXCEPT ![s] = Absent]
    /\ pc' = Goto(s, "so_markup")
    /\ UNCHANGED <<upd, loc, sent, keyboards, disk, proc>>

\* line 144
SoMarkup(s) ==
    /\ pc[s] = "so_markup"
    /\ sent' = Say(s, EditMarkupMsg({}))
    /\ keyboards' = Rekey(s, {})
    /\ pc' = Goto(s, "so_invite")
    /\ UNCHANGED <<upd, loc, store, disk, proc>>

\* lines 145-148
SoInvite(s) ==
    /\ pc[s] = "so_invite"
    /\ sent' = Say(s, Notice("invite"))
    /\ pc' = Goto(s, "done")
    /\ UNCHANGED <<upd, loc, store, keyboards, disk, proc>>

(***************************************************************************)
(* The documents users send.                                               *)
(***************************************************************************)
Pdf(name, pages) == Upload("application/pdf", name, TRUE, pages)

\* A text file.
NotPdf == Upload("text/plain", "doc.pdf", FALSE, <<>>)

\* Declared a PDF, and none.
Corrupt == Upload("application/pdf", "doc.pdf", FALSE, <<>>)

\* A PDF with one page of white space.
Blank == Pdf("blank.pdf", <<Page(TRUE, <<" ", NL>>, <<>>)>>)

\* Two pages, a word split over two lines, an image three times.
Report ==
    Pdf("doc.pdf", <<Page(TRUE, <<"a", "-", NL, "b">>, <<"A", "A">>),
                     Page(TRUE, <<"c", NL>>, <<"B", "A">>)>>)

\* A page with an image and no text.
Scan == Pdf("doc.pdf", <<Page(TRUE, <<>>, <<"B">>)>>)

\* A page with a text and two images, the second of which cannot be
\* extracted.
Broken == Pdf("doc.pdf", <<Page(TRUE, <<"b">>, <<"A", BadXref>>)>>)

Catalogue == {NotPdf, Corrupt, Blank, Report, Scan, Broken}

(***************************************************************************)
(* The bot at work: updates arrive and are handled one after the other.    *)
(***************************************************************************)
Step(s) ==
    \/ StReply(s)
    \/ HpNotice(s)
    \/ HpReject(s)
    \/ HpDownload(s)
    \/ HpOpen(s)
    \/ HpPage(s)
    \/ HpStore(s)
    \/ HpSend(s)
    \/ HpPrompt(s)
    \/ DwAnswer(s)
    \/ DwNoData(s)
    \/ DwAssemble(s)
    \/ DwSend(s)
    \/ DwMarkup(s)
    \/ SoAnswer(s)
    \/ SoPop(s)
    \/ SoMarkup(s)
    \/ SoInvite(s)
    \/ Return(s)

Next ==
    \E s \in Sessions :
        \/ StartCommand(s)
        \/ \E u \in Catalogue : Arrive(s, u)
        \/ \E k \in {FullKeyboard, NarrowKeyboard} : \E b \in k : Press(s, k, b)
        \/ Step(s)

Spec == Init /\ [][Next]_vars

(***************************************************************************)
(* One upload, of any document within the bounds, handled from the start   *)
(* to its end: under SpecUpload every arrangement of texts and images on   *)
(* the pages and texts of several chunks, under SpecText every page text.  *)
(***************************************************************************)
\* What extract_text does on a page: a word, white space only, or it raises.
TextChoices == {<<TRUE, <<"a">>>>, <<TRUE, <<NL>>>>, <<FALSE, <<>>>>}

ImageLists(k) == UNION {[1..n -> ImageBytes \cup {BadXref}] : n \in 0..k}

PageChoices(k) == {Page(t[1], t[2], imgs) : t \in TextChoices, imgs \in ImageLists(k)}

\* Every sequence of n pages with at most k images.
RECURSIVE PageSeqs(_, _)
PageSeqs(n, k) ==
    IF n = 0 THEN {<<>>}
    ELSE UNION {{<<p>> \o rest : rest \in PageSeqs(n - 1, k - Len(p.images))} :
                p \in PageChoices(k)}

StructUploads ==
    {Pdf("doc.pdf", pages) : pages \in UNION {PageSeqs(n, MaxImages) : n \in 0..MaxPages}}

\* Every text of at most MaxLen characters, alone on a page.
Alphabet == {"a", "-", "\n", " "}

TextUploads ==
    {Pdf("doc.pdf", <<Page(TRUE, AsSeq(t), <<>>)>>) :
        t \in UNION {[1..n -> Alphabet] : n \in 0..MaxLen}}

\* Long texts: lengths around the multiples of the chunk size, and 10,000.
LongText(n) ==
    AsSeq([i \in 1..n |-> IF i % 3 = 0 THEN "a" ELSE IF i % 3 = 1 THEN "b" ELSE "c"])

LongLengths ==
    {k * ChunkSize + d : k \in 0..(MaxChunks - 1), d \in {1, ChunkSize - 1, ChunkSize}}
        \cup {n \in {10000} : n <= MaxChunks * ChunkSize}

LongUploads ==
    {Pdf("doc.pdf", <<Page(TRUE, LongText(n), <<"A">>), Page(TRUE, <<"c", "c">>, <<>>)>>) :
        n \in LongLengths}

AllUploads == StructUploads \cup LongUploads \cup {NotPdf, Corrupt}

\* The first update of the process is a document of session u1, one of
\* uploads.
InitWith(uploads) ==
    /\ proc = Serving
    /\ \E u \in uploads : upd = [s \in Sessions |-> IF s = "u1" THEN u ELSE NoUpdate]
    /\ pc = [s \in Sessions |-> IF s = "u1" THEN "hp_notice" ELSE "idle"]
    /\ loc = [s \in Sessions |-> NoLocals]
    /\ sent = [s \in Sessions |-> <<>>]
    /\ store = [s \in Sessions |-> Absent]
    /\ keyboards = [s \in Sessions |-> NoKeyboards]
    /\ disk = [f \in Paths |-> NoFile]

InitUpload == InitWith(AllUploads)

InitText == InitWith(TextUploads \cup {NotPdf})

NextUpload ==
    \E s \in Sessions :
        \/ HpNotice(s)
        \/ HpReject(s)
        \/ HpDownload(s)
        \/ HpOpen(s)
        \/ HpPage(s)
        \/ HpStore(s)
        \/ HpSend(s)
        \/ HpPrompt(s)

SpecUpload == InitUpload /\ [][NextUpload]_vars

\* The same, for a page of any text within the bound.
SpecText == InitText /\ [][NextUpload]_vars

(***************************************************************************)
(* Properties of the handlers, under Spec.                                 *)
(***************************************************************************)
IsUpload(s) == upd[s].kind = "document"

IsPdfUpload(s) == IsUpload(s) /\ upd[s].mime_type = "application/pdf"

IsDownload(s) == upd[s].kind = "callback" /\ Route(upd[s].data) = "dw_answer"

IsStartOver(s) == upd[s].kind = "callback" /\ Route(upd[s].data) = "so_answer"

Kinds(s) == {sent[s][k].kind : k \in 1..Len(sent[s])}

\* C1: while and after a document that is not a PDF is handled, the store of
\* the session is what it was when the handler started, nothing but the fixed
\* notices has been sent (no block, no prompt), the handler takes no step of
\* the PDF path, and at its end it has sent the rejection.
C1_NonPdfRejected ==
    \A s \in Sessions :
        (IsUpload(s) /\ ~IsPdfUpload(s)) =>
            /\ store[s] = loc[s].entry_store
            /\ pc[s] \in {"hp_notice", "hp_mime", "done"}
            /\ Kinds(s) \subseteq {"notice"}
            /\ pc[s] = "done" =>
                   sent[s] = <<Notice("processing"), Notice("not_pdf")>>

\* A non-PDF was rejected in a session that had blocks stored.
C1_Witness ==
    \E s \in Sessions :
        /\ IsUpload(s) /\ ~IsPdfUpload(s)
        /\ pc[s] = "done"
        /\ loc[s].entry_store.blocks # <<>>
        /\ Notice("not_pdf") = sent[s][Len(sent[s])]

\* C2: while and after a download is handled in a session whose store was
\* absent or empty when the handler started, the store is unchanged, no
\* document is assembled or sent, and at its end the handler has put the
\* no-content text in place of the prompt.
C2_DownloadWithoutContent ==
    \A s \in Sessions :
        (IsDownload(s) /\ loc[s].entry_store.blocks = <<>>) =>
            /\ store[s] = loc[s].entry_store
            /\ pc[s] \in {"dw_answer", "dw_read", "done"}
            /\ "document" \notin Kinds(s)
            /\ pc[s] = "done" => sent[s] = <<AnswerMsg, EditTextMsg("no_data")>>

\* A download ended with the no-content text in a session whose last PDF had
\* neither text nor image.
C2_Witness ==
    \E s \in Sessions :
        /\ IsDownload(s)
        /\ pc[s] = "done"
        /\ loc[s].entry_store = Stored(<<>>)
        /\ EditTextMsg("no_data") = sent[s][Len(sent[s])]

\* C3: the pop of a start-over leaves the store of the session absent; an
\* absent store is filled by nothing but the store step of a PDF upload of
\* that session; and a download that reads an absent store ends, in its next
\* step, with the no-content text and no document.
C3_StartOverClears ==
    [][\A s \in Sessions :
          /\ (IsStartOver(s) /\ pc[s] = "so_pop" /\ pc'[s] # "so_pop") =>
                 store'[s] = Absent
          /\ (IsStartOver(s) /\ pc[s] \in {"so_markup", "so_invite", "done"}) =>
                 store[s] = Absent
          /\ (~store[s].has /\ store'[s].has) =>
                 (IsPdfUpload(s) /\ pc[s] = "hp_page" /\ pc'[s] = "hp_send")
          /\ (IsDownload(s) /\ ~store[s].has /\ pc[s] = "dw_read" /\ pc'[s] # "dw_read") =>
                 /\ pc'[s] = "done"
                 /\ sent'[s] = <<AnswerMsg, EditTextMsg("no_data")>>
                 /\ store'[s] = Absent
      ]_vars

\* A download, pressed on an older prompt after a start-over cleared the
\* stored blocks, ended with the no-content text.
C3_Witness ==
    \E s \in Sessions :
        /\ IsDownload(s)
        /\ pc[s] = "done"
        /\ loc[s].entry_store = Absent
        /\ store[s] = Absent
        /\ sent[s] = <<AnswerMsg, EditTextMsg("no_data")>>

\* The blocks of a whole PDF: the page loop of lines 54-76 run to its end.
RECURSIVE ExtractFrom(_, _)
ExtractFrom(r, pages) ==
    IF r.i = Len(pages) THEN r
    ELSE LET res == WithImages(WithText(r, PageText(pages[r.i + 1]), r.i + 1),
                               pages[r.i + 1].images, r.i + 1, 1)
         IN  ExtractFrom([res.r EXCEPT !.i = r.i + 1], pages)

ExtractAll(pages) == ExtractFrom(NoLocals, pages).docx_blocks

\* C4: the store of a session changes in two ways only: the pop of a
\* start-over makes it absent, and handle_pdf, once the last page of the
\* uploaded file is read, sets it to the blocks of all the pages of that
\* file.  So it is absent or the whole result of the last extraction that
\* ended, and while pages are being read it is what it was before.
C4_StoreIsWholeExtraction ==
    [][\A s \in Sessions :
          \/ store'[s] = store[s]
          \/ /\ IsStartOver(s)
             /\ pc[s] = "so_pop"
             /\ store'[s] = Absent
          \/ /\ IsPdfUpload(s)
             /\ pc[s] = "hp_page"
             /\ loc[s].pages = upd[s].pages
             /\ loc[s].i = Len(upd[s].pages)
             /\ store'[s] = Stored(ExtractAll(upd[s].pages))
      ]_vars

\* A second PDF is being read, some of its blocks are extracted, and the
\* store still holds the blocks of the first.
C4_Witness ==
    \E s \in Sessions :
        /\ IsPdfUpload(s)
        /\ pc[s] = "hp_page"
        /\ 0 < loc[s].i /\ loc[s].i < Len(loc[s].pages)
        /\ loc[s].docx_blocks # <<>>
        /\ store[s].blocks # <<>>
        /\ store[s].blocks # loc[s].docx_blocks
        /\ store[s].blocks # ExtractAll(upd[s].pages)

\* C5: a download in a session with blocks stored never changes the store;
\* once it has read the store it goes on to send; and it ends having sent,
\* after the answer, one document named converted.docx made of the stored
\* blocks, and having replaced the keyboard of its prompt by the start-over
\* button alone.
C5_DownloadKeepsStore ==
    [][\A s \in Sessions :
          (IsDownload(s) /\ store[s].blocks # <<>>) =>
              /\ store'[s] = store[s]
              /\ (pc[s] = "dw_read" /\ pc'[s] # "dw_read") => pc'[s] = "dw_send"
              /\ (pc[s] = "dw_markup" /\ pc'[s] # "dw_markup") =>
                     /\ pc'[s] = "done"
                     /\ sent'[s] = <<AnswerMsg,
                                     DocumentMsg("converted.docx", Assemble(store[s].blocks)),
                                     EditMarkupMsg({"start_over"})>>
                     /\ keyboards'[s][{"download_word", "start_over"}] =
                            keyboards[s][{"download_word", "start_over"}] - 1
                     /\ keyboards'[s][{"start_over"}] = keyboards[s][{"start_over"}] + 1
      ]_vars

\* A download has sent its document while another prompt of the chat was
\* already narrowed by an earlier download.
C5_Witness ==
    \E s \in Sessions :
        /\ IsDownload(s)
        /\ pc[s] = "done"
        /\ "document" \in Kinds(s)
        /\ store[s].blocks # <<>>
        /\ keyboards[s][NarrowKeyboard] >= 2

(***************************************************************************)
(* Properties of one upload, under SpecUpload.                             *)
(***************************************************************************)
\* The image occurrences of the first n pages, as <<page, place on the page>>.
Occurrences(pages, n) ==
    UNION {{<<p, k>> : k \in 1..Len(pages[p].images)} : p \in 1..n}

BytesAt(pages, o) == pages[o[1]].images[o[2]]

\* Page order, then order on the page; the text of a page has place 0.
Before(o1, o2) == o1[1] < o2[1] \/ (o1[1] = o2[1] /\ o1[2] < o2[2])

ImageBlocksOf(blocks) == {j \in 1..Len(blocks) : IsImage(blocks[j])}

Extracted(s) == IsPdfUpload(s) /\ pc[s] \in {"hp_send", "done"}

\* C6, as claimed: when the pages are read, no two image blocks have the same
\* content, and every image of the PDF has exactly one block, which stands
\* for its first occurrence.
C6_OneBlockPerImage ==
    \A s \in Sessions :
        Extracted(s) =>
            LET blocks == loc[s].docx_blocks
                pages == upd[s].pages
                occ == Occurrences(pages, Len(pages))
            IN  /\ \A j, k \in ImageBlocksOf(blocks) :
                       j # k => blocks[j][2][1] # blocks[k][2][1]
                /\ \A o \in occ :
                       LET mine == {j \in ImageBlocksOf(blocks) :
                                        blocks[j][2][1] = BytesAt(pages, o)}
                       IN  /\ Cardinality(mine) = 1
                           /\ \A j \in mine :
                                  /\ BytesAt(pages, loc[s].origin[j]) = BytesAt(pages, o)
                                  /\ \A e \in occ :
                                         BytesAt(pages, e) = BytesAt(pages, o) =>
                                             ~Before(e, loc[s].origin[j])

\* C6, amended: the set of seen hashes is empty before the first page and
\* holds the hashes of the images of the pages read; no two image blocks have
\* the same hash, hence none the same content; and an occurrence of an image
\* has a block, with its content and extension, exactly when no earlier
\* occurrence in the same PDF has the same hash.
C6_OneBlockPerHash ==
    \A s \in Sessions :
        (IsPdfUpload(s) /\ pc[s] \in {"hp_page", "hp_send", "done"}) =>
            LET blocks == loc[s].docx_blocks
                pages == upd[s].pages
                occ == Occurrences(pages, loc[s].i)
            IN  /\ loc[s].i = 0 => (loc[s].sent_hashes = {} /\ blocks = <<>>)
                /\ loc[s].sent_hashes = {Hash(BytesAt(pages, o)) : o \in occ}
                /\ \A j, k \in ImageBlocksOf(blocks) :
                       j # k => /\ Hash(blocks[j][2][1]) # Hash(blocks[k][2][1])
                                /\ blocks[j][2][1] # blocks[k][2][1]
                /\ \A j \in ImageBlocksOf(blocks) :
                       /\ loc[s].origin[j] \in occ
                       /\ blocks[j][2] = <<BytesAt(pages, loc[s].origin[j]),
                                           ExtOf(BytesAt(pages, loc[s].origin[j]))>>
                /\ \A o \in occ :
                       (\E j \in ImageBlocksOf(blocks) : loc[s].origin[j] = o)
                           <=> ~\E e \in occ :
                                    /\ Before(e, o)
                                    /\ Hash(BytesAt(pages, e)) = Hash(BytesAt(pages, o))

\* A PDF with the same image on two pages is read, and has one image block.
C6_Witness ==
    \E s \in Sessions :
        /\ Extracted(s)
        /\ \E o, e \in Occurrences(upd[s].pages, Len(upd[s].pages)) :
               /\ o[1] < e[1]
               /\ BytesAt(upd[s].pages, o) = BytesAt(upd[s].pages, e)
        /\ Cardinality(ImageBlocksOf(loc[s].docx_blocks)) = 1

\* C7: at every turn of the page loop and after it, the blocks stand in the
\* order of their sources (page after page; on a page the text, then the
\* images as get_images lists them), every block has the content of its
\* source, a page has at most one text block, and there are no more text
\* blocks than pages read.
C7_BlocksInSourceOrder ==
    \A s \in Sessions :
        (IsPdfUpload(s) /\ pc[s] \in {"hp_page", "hp_send", "done"}) =>
            LET blocks == loc[s].docx_blocks
                origin == loc[s].origin
                pages == upd[s].pages
                texts == {j \in 1..Len(blocks) : IsText(blocks[j])}
            IN  /\ Len(origin) = Len(blocks)
                /\ loc[s].i <= Len(pages)
                /\ Cardinality(texts) <= loc[s].i
                /\ \A j, k \in 1..Len(blocks) : j < k => Before(origin[j], origin[k])
                /\ \A j, k \in texts : origin[j][1] = origin[k][1] => j = k
                /\ \A j \in 1..Len(blocks) :
                       /\ origin[j][1] \in 1..loc[s].i
                       /\ IsText(blocks[j]) <=> origin[j][2] = 0
                       /\ IsText(blocks[j]) =>
                              /\ pages[origin[j][1]].ok
                              /\ blocks[j][2] = Normalize(pages[origin[j][1]].text)
                       /\ IsImage(blocks[j]) =>
                              /\ origin[j] \in Occurrences(pages, loc[s].i)
                              /\ blocks[j][2][1] = BytesAt(pages, origin[j])

\* A PDF of two pages, each with a text and an image, is read: text, image,
\* text, image.
C7_Witness ==
    \E s \in Sessions :
        /\ Extracted(s)
        /\ loc[s].origin = <<<<1, 0>>, <<1, 1>>, <<2, 0>>, <<2, 1>>>>
        /\ Len(loc[s].docx_blocks) = 4

\* The messages a block takes, as the claim counts them.
MsgCount(b) == IF IsText(b) THEN (Len(b[2]) + 4095) \div 4096 ELSE 1

\* The messages the blocks before the k-th take.
RECURSIVE MsgsBefore(_, _)
MsgsBefore(blocks, k) ==
    IF k <= 1 THEN 0 ELSE MsgsBefore(blocks, k - 1) + MsgCount(blocks[k - 1])

\* C8: when a PDF is delivered, the handler has sent the notice, the
\* messages of the blocks and the prompt, and no more; a text block of
\* length L has ceil(L/4096) text messages, all of 4096 characters but the
\* last, which has the rest, and character p of the block is character
\* ((p-1) mod 4096)+1 of message ((p-1) div 4096)+1.
C8_ChunksOfText ==
    \A s \in Sessions :
        (IsPdfUpload(s) /\ pc[s] = "done") =>
            LET blocks == loc[s].docx_blocks
            IN  /\ Len(sent[s]) = 2 + MsgsBefore(blocks, Len(blocks) + 1)
                /\ \A k \in 1..Len(blocks) :
                       IsText(blocks[k]) =>
                           LET t == blocks[k][2]
                               n == MsgCount(blocks[k])
                               at == 1 + MsgsBefore(blocks, k)
                           IN  /\ Len(t) >= 1
                               /\ \A q \in 1..n :
                                      /\ sent[s][at + q].kind = "text"
                                      /\ Len(sent[s][at + q].text) =
                                             IF q < n THEN 4096 ELSE Len(t) - 4096 * (n - 1)
                                      /\ Len(sent[s][at + q].text) \in 1..4096
                               /\ \A p \in 1..Len(t) :
                                      sent[s][at + ((p - 1) \div 4096) + 1].text[((p - 1) % 4096) + 1]
                                          = t[p]

\* A text block of 10,000 characters was sent as 4096, 4096 and 1808.
C8_Witness ==
    \E s \in Sessions :
        /\ IsPdfUpload(s)
        /\ pc[s] = "done"
        /\ Len(loc[s].docx_blocks) >= 1
        /\ IsText(loc[s].docx_blocks[1])
        /\ Len(loc[s].docx_blocks[1][2]) = 10000
        /\ Len(sent[s]) >= 5
        /\ \A q \in 2..4 : sent[s][q].kind = "text"
        /\ <<Len(sent[s][2].text), Len(sent[s][3].text), Len(sent[s][4].text)>>
               = <<4096, 4096, 1808>>
        /\ sent[s][5].kind # "text"

\* The page text with every word-hyphen-newline-word occurrence joined, then
\* treated as lines 60-61 do.
JoinAll(t) ==
    LET Kept(i) == ~Cand(t, i - 1) /\ ~Cand(t, i - 2)
    IN  Pick(t, SelectSeq(Indices(t), Kept))

ClaimedText(t) == Strip(CollapseSpaces(NewlinesToSpaces(JoinAll(t))))

\* The text block of page p, or the empty text when the page has none.
TextOfPage(s, p) ==
    IF \E j \in 1..Len(loc[s].origin) : loc[s].origin[j] = <<p, 0>>
    THEN loc[s].docx_blocks[CHOOSE j \in 1..Len(loc[s].origin) : loc[s].origin[j] = <<p, 0>>][2]
    ELSE <<>>

\* C9: the text block of a page is the page text with every occurrence of a
\* word character, a hyphen, a newline and a word character stripped of the
\* hyphen and the newline, before newlines become spaces, runs of spaces
\* collapse and the ends are trimmed.
C9_EverySplitRejoined ==
    \A s \in Sessions :
        Extracted(s) =>
            \A p \in 1..Len(upd[s].pages) :
                upd[s].pages[p].ok =>
                    TextOfPage(s, p) = ClaimedText(upd[s].pages[p].text)

\* The message the delivery owes at place m (1 is the first after the
\* notice), as the claim has it: the photo of an image block, or the next
\* piece of the text block.
Owed(blocks, m) ==
    LET k == CHOOSE k \in 1..Len(blocks) :
                 MsgsBefore(blocks, k) < m /\ m <= MsgsBefore(blocks, k + 1)
        c == m - MsgsBefore(blocks, k)
    IN  IF IsImage(blocks[k])
        THEN [kind |-> "photo", photo |-> blocks[k][2][1]]
        ELSE [kind |-> "text",
              text |-> SubSeq(blocks[k][2], (c - 1) * 4096 + 1,
                              Min(c * 4096, Len(blocks[k][2])))]

\* C10: while and after the blocks of a PDF are delivered, the messages sent
\* after the notice are, in order, those of the blocks in their order (the
\* pieces of a text block in order, one photo for an image block); a prompt
\* is sent once, with both buttons, as the last message, after the messages
\* of all the blocks, and leaves one more keyboard in the chat.
C10_BlocksThenPrompt ==
    \A s \in Sessions :
        Extracted(s) =>
            LET blocks == loc[s].docx_blocks
                total == MsgsBefore(blocks, Len(blocks) + 1)
            IN  /\ Len(sent[s]) >= 1
                /\ sent[s][1] = [kind |-> "notice", id |-> "processing"]
                /\ Len(sent[s]) <= total + 2
                /\ \A m \in 1..Min(Len(sent[s]) - 1, total) :
                       /\ sent[s][m + 1].kind = Owed(blocks, m).kind
                       /\ sent[s][m + 1] = Owed(blocks, m)
                /\ pc[s] = "hp_send" => Len(sent[s]) <= total + 1
                /\ pc[s] = "done" =>
                       /\ Len(sent[s]) = total + 2
                       /\ sent[s][total + 2] =
                              [kind |-> "prompt", buttons |-> {"download_word", "start_over"}]
                       /\ keyboards[s][FullKeyboard] = 1

\* A long text, an image and a second text were delivered, and then the
\* prompt.
C10_Witness ==
    \E s \in Sessions :
        /\ IsPdfUpload(s)
        /\ pc[s] = "done"
        /\ Len(loc[s].docx_blocks) = 3
        /\ IsText(loc[s].docx_blocks[1])
        /\ Len(loc[s].docx_blocks[1][2]) > 4096
        /\ IsImage(loc[s].docx_blocks[2])
        /\ Kinds(s) = {"notice", "text", "photo", "prompt"}
        /\ sent[s][Len(sent[s])].kind = "prompt"

(***************************************************************************)
(* Properties of the download, under Spec.                                 *)
(***************************************************************************)
\* C11: when a download has ended, none of the temporary files it created
\* for the image blocks is left.
C11_NoTempFileLeft ==
    \A s \in Sessions :
        (IsDownload(s) /\ pc[s] = "done") => loc[s].tmp_files = <<>>

(***************************************************************************)
(* Uploads of different sessions handled concurrently: the handlers of two *)
(* sessions take turns at their awaits, as an application that does not    *)
(* handle its updates one at a time runs them.                             *)
(***************************************************************************)
\* A slip: a suspension between the download of line 45 and the open of
\* line 48, so that only the page loop runs in one piece.
SynchronousFromPage(s) == pc[s] = "hp_page"

\* The handler of s is between two awaits: download_to_drive writes the file
\* as its last act, and lines 48-79 follow it with no await, so the handler
\* keeps the event loop from the write of the file to the write of the store.
Synchronous(s) == pc[s] \in {"hp_open", "hp_page"}

\* A document arrives while handlers of other sessions are suspended.
ArriveDuring(s, u) ==
    /\ pc[s] = "idle"
    /\ Alive(s) < MaxPrompts
    /\ Dispatch(s, u, "hp_notice")

\* The event loop can run code of s: no other handler is between two awaits.
Turn(s) == \A t \in Sessions \ {s} : ~Synchronous(t)

NextConcurrent ==
    \E s \in Sessions :
        \/ \E u \in Catalogue : Turn(s) /\ ArriveDuring(s, u)
        \/ Turn(s) /\ HpNotice(s)
        \/ Turn(s) /\ HpReject(s)
        \/ Turn(s) /\ HpDownload(s)
        \/ Turn(s) /\ HpOpen(s)
        \/ Turn(s) /\ HpPage(s)
        \/ Turn(s) /\ HpStore(s)
        \/ Turn(s) /\ HpSend(s)
        \/ Turn(s) /\ HpPrompt(s)
        \/ Turn(s) /\ Return(s)

SpecConcurrent == Init /\ [][NextConcurrent]_vars

\* C12: with the uploads of two sessions taking turns at their awaits, under
\* equal file names too, a handler reads the pages of its own document; the
\* blocks it extracts, stores and delivers are those of its own document;
\* and the store of a session is written by the handler of that session
\* alone, at line 79.
C12_SessionsDoNotInterfere ==
    /\ [](\A s \in Sessions :
            /\ (IsPdfUpload(s) /\ pc[s] = "hp_page") => loc[s].pages = upd[s].pages
            /\ (IsPdfUpload(s) /\ pc[s] \in {"hp_send", "done"}) =>
                   LET own == ExtractAll(upd[s].pages)
                       total == MsgsBefore(own, Len(own) + 1)
                   IN  /\ loc[s].docx_blocks = own
                       /\ store[s] = Stored(own)
                       /\ Len(sent[s]) <= total + 2
                       /\ \A m \in 1..Min(Len(sent[s]) - 1, total) :
                              sent[s][m + 1] = Owed(own, m)
                       /\ pc[s] = "done" => Len(sent[s]) = total + 2)
    /\ [][\A s \in Sessions :
            store'[s] # store[s] =>
                (IsPdfUpload(s) /\ pc[s] = "hp_page" /\ pc'[s] = "hp_send")]_vars

\* Two sessions deliver different documents of the same file name at the same
\* time, after the file of the one was overwritten by the other.
C12_Witness ==
    \E s, t \in Sessions :
        /\ s # t
        /\ IsPdfUpload(s) /\ IsPdfUpload(t)
        /\ pc[s] = "hp_send" /\ pc[t] = "hp_send"
        /\ upd[s].file_name = upd[t].file_name
        /\ ExtractAll(upd[s].pages) # ExtractAll(upd[t].pages)
        /\ disk[upd[s].file_name].pages # upd[s].pages
        /\ Len(sent[s]) >= 2 /\ Len(sent[t]) >= 2
        /\ store[s] # store[t]

(***************************************************************************)
(* One upload, of any document within the bounds, and the download of what *)
(* it stored.                                                              *)
(***************************************************************************)
NextDownload ==
    \E s \in Sessions :
        \/ HpNotice(s)
        \/ HpReject(s)
        \/ HpDownload(s)
        \/ HpOpen(s)
        \/ HpPage(s)
        \/ HpStore(s)
        \/ HpSend(s)
        \/ HpPrompt(s)
        \/ Return(s)
        \/ Press(s, FullKeyboard, "download_word")
        \/ DwAnswer(s)
        \/ DwNoData(s)
        \/ DwAssemble(s)
        \/ DwSend(s)
        \/ DwMarkup(s)

SpecDownload == InitUpload /\ [][NextDownload]_vars

\* The texts of the paragraphs of a document that are not picture
\* paragraphs, in order.
Paragraphs(doc) ==
    LET IsParagraph(e) == e[1] = "paragraph"
        ps == SelectSeq(doc, IsParagraph)
    IN  [k \in 1..Len(ps) |-> ps[k][2]]

\* The texts of the text blocks, in order.
Texts(blocks) ==
    LET ts == SelectSeq(blocks, IsText)
    IN  [k \in 1..Len(ts) |-> ts[k][2]]

\* C13: the document a download assembles from a non-empty stored sequence,
\* saves and sends has, as its text paragraphs, the texts of the text blocks
\* of the sequence: as many, in the same order, each in full.
C13_ParagraphsAreTexts ==
    \A s \in Sessions :
        (IsDownload(s) /\ pc[s] \in {"dw_send", "dw_markup", "done"}
                       /\ store[s].blocks # <<>>) =>
            /\ Paragraphs(loc[s].doc) = Texts(store[s].blocks)
            /\ Paragraphs(disk["output.docx"].body) = Texts(store[s].blocks)
            /\ \A k \in 1..Len(sent[s]) :
                   sent[s][k].kind = "document" =>
                       Paragraphs(sent[s][k].body) = Texts(store[s].blocks)

\* A document was sent with a paragraph of 10,000 characters, a picture and
\* a second paragraph.
C13_Witness ==
    \E s \in Sessions :
        /\ IsDownload(s)
        /\ pc[s] = "done"
        /\ Len(sent[s]) = 3
        /\ sent[s][2].kind = "document"
        /\ Len(sent[s][2].body) = 3
        /\ sent[s][2].body[1][1] = "paragraph"
        /\ Len(sent[s][2].body[1][2]) = 10000
        /\ sent[s][2].body[2][1] = "picture"
        /\ sent[s][2].body[3] = <<"paragraph", <<"c", "c">>>>

(***************************************************************************)
(* Further properties of the handlers, under Spec.                         *)
(***************************************************************************)
\* C14: a prompt with the download button is emitted by a PDF upload only,
\* when the store of the session already holds all the blocks of that
\* upload, and emitting it leaves the store alone; and a download starts
\* only from a prompt that was emitted and still has its download button.
C14_StoreBeforePrompt ==
    [][\A s \in Sessions :
          /\ keyboards'[s][FullKeyboard] > keyboards[s][FullKeyboard] =>
                 /\ IsPdfUpload(s)
                 /\ pc[s] = "hp_send"
                 /\ store[s] = Stored(loc[s].docx_blocks)
                 /\ store[s] = Stored(ExtractAll(upd[s].pages))
                 /\ store'[s] = store[s]
                 /\ sent'[s][Len(sent'[s])].kind = "prompt"
          /\ (Len(sent'[s]) > Len(sent[s]) /\ sent'[s][Len(sent'[s])].kind = "prompt") =>
                 keyboards'[s][FullKeyboard] = keyboards[s][FullKeyboard] + 1
          /\ (pc[s] = "idle" /\ pc'[s] = "dw_answer") =>
                 keyboards[s][FullKeyboard] > 0
      ]_vars

\* A download pressed on the prompt of an upload reads the blocks that
\* upload stored.
C14_Witness ==
    \E s \in Sessions :
        /\ IsDownload(s)
        /\ pc[s] = "dw_read"
        /\ upd[s].keyboard = FullKeyboard
        /\ store[s].has
        /\ Len(store[s].blocks) >= 4

(***************************************************************************)
(* Further properties of one upload, under SpecUpload and SpecText.        *)
(***************************************************************************)
\* The pages, with every page whose text extraction raises replaced by a
\* page of the same images and no text.
WithoutFailedTexts(pages) ==
    [p \in 1..Len(pages) |->
        IF pages[p].ok THEN pages[p] ELSE Page(TRUE, <<>>, pages[p].images)]

HasBadXref(pages) ==
    \E p \in 1..Len(pages) : \E k \in 1..Len(pages[p].images) :
        pages[p].images[k] = BadXref

\* C15: a page whose text extraction raises has no text block; its images
\* have their blocks as those of any page do; the blocks are those of the
\* same document with these pages empty of text; the handler fails only on a
\* file that cannot be opened or an image that cannot be extracted; and at
\* its end the blocks are stored and the prompt is sent.
C15_FailedPageTextSkipped ==
    \A s \in Sessions :
        IsPdfUpload(s) =>
            LET pages == upd[s].pages
                blocks == loc[s].docx_blocks
                origin == loc[s].origin
            IN  /\ pc[s] = "failed" => (~upd[s].readable \/ HasBadXref(pages))
                /\ pc[s] \in {"hp_page", "hp_send", "done"} =>
                       \A p \in 1..loc[s].i :
                           ~pages[p].ok =>
                               /\ ~\E j \in 1..Len(blocks) : origin[j] = <<p, 0>>
                               /\ \A k \in 1..Len(pages[p].images) :
                                      (\E j \in 1..Len(blocks) : origin[j] = <<p, k>>)
                                          <=> ~\E e \in Occurrences(pages, p) :
                                                   /\ Before(e, <<p, k>>)
                                                   /\ Hash(BytesAt(pages, e)) =
                                                          Hash(pages[p].images[k])
                /\ Extracted(s) =>
                       /\ blocks = ExtractAll(WithoutFailedTexts(pages))
                       /\ store[s] = Stored(blocks)
                /\ pc[s] = "done" => sent[s][Len(sent[s])] = PromptMsg(FullKeyboard)

\* The text of the first page could not be extracted: its image and the text
\* of the second page were stored and delivered, and the prompt sent.
C15_Witness ==
    \E s \in Sessions :
        /\ IsPdfUpload(s)
        /\ pc[s] = "done"
        /\ Len(upd[s].pages) = 2
        /\ ~upd[s].pages[1].ok
        /\ upd[s].pages[1].images = <<"A">>
        /\ store[s] = Stored(<<ImageBlock("A", "png"), TextBlock(<<"a">>)>>)
        /\ sent[s] = <<Notice("processing"), PhotoMsg("A"), TextMsg(<<"a">>),
                       PromptMsg(FullKeyboard)>>

\* C17: a text block is not empty, holds no newline and no two spaces in a
\* row, and neither begins nor ends with white space; and a page has a text
\* block exactly when its text, normalized, is not empty.
C17_TextBlocksNormalized ==
    \A s \in Sessions :
        (IsPdfUpload(s) /\ pc[s] \in {"hp_page", "hp_send", "done"}) =>
            LET blocks == loc[s].docx_blocks
            IN  /\ \A j \in 1..Len(blocks) :
                       IsText(blocks[j]) =>
                           LET t == blocks[j][2]
                           IN  /\ Len(t) >= 1
                               /\ \A i \in 1..Len(t) : t[i] # "\n"
                               /\ \A i \in 1..(Len(t) - 1) :
                                      ~(t[i] = " " /\ t[i + 1] = " ")
                               /\ t[1] \notin {" ", "\n"}
                               /\ t[Len(t)] \notin {" ", "\n"}
                /\ \A p \in 1..loc[s].i :
                       (\E j \in 1..Len(blocks) : loc[s].origin[j] = <<p, 0>>)
                           <=> \E i \in 1..Len(upd[s].pages[p].text) :
                                   upd[s].pages[p].text[i] \notin {" ", "\n"}

\* A page text with a split word, newlines, runs of spaces and white space
\* at both ends gave one text block.
C17_Witness ==
    \E s \in Sessions :
        /\ Extracted(s)
        /\ upd[s].pages[1].text = <<" ", "a", "-", "\n", "a", " ", "\n">>
        /\ loc[s].docx_blocks = <<TextBlock(<<"a", "a">>)>>

(***************************************************************************)
(* Further properties of the download, under SpecDownload.                 *)
(***************************************************************************)
\* The blocks add_picture does not fail on.
Written(blocks) ==
    {j \in 1..Len(blocks) : IsText(blocks[j]) \/ Embeddable(blocks[j][2][2])}

\* C16: in the document of a download, the blocks other than the images
\* whose embedding fails stand in their order, a text block as a paragraph
\* and an image block as a picture, and nothing else; whatever images fail,
\* the download goes on to save the document and ends having sent it and
\* narrowed the keyboard.
C16_FailedImageSkipped ==
    \A s \in Sessions :
        (IsDownload(s) /\ store[s].blocks # <<>>) =>
            LET blocks == store[s].blocks
                doc == loc[s].doc
                Place(j) == Cardinality({i \in Written(blocks) : i <= j})
            IN  /\ pc[s] \in {"dw_answer", "dw_read", "dw_send", "dw_markup", "done"}
                /\ pc[s] \in {"dw_send", "dw_markup", "done"} =>
                       /\ Len(doc) = Cardinality(Written(blocks))
                       /\ \A j \in Written(blocks) :
                              /\ doc[Place(j)][1] =
                                     (IF IsText(blocks[j]) THEN "paragraph" ELSE "picture")
                              /\ doc[Place(j)][2] = blocks[j][2]
                       /\ disk["output.docx"] = [kind |-> "docx", body |-> doc]
                /\ pc[s] \in {"dw_markup", "done"} =>
                       /\ Len(sent[s]) >= 2
                       /\ sent[s][2] = DocumentMsg("converted.docx", doc)
                /\ pc[s] = "done" =>
                       sent[s] = <<AnswerMsg, DocumentMsg("converted.docx", doc),
                                   EditMarkupMsg(NarrowKeyboard)>>

\* The first stored block is an image add_picture cannot read: the document
\* sent has the text and the image that follow it.
C16_Witness ==
    \E s \in Sessions :
        /\ IsDownload(s)
        /\ pc[s] = "done"
        /\ store[s].blocks = <<ImageBlock("B", "jpx"), TextBlock(<<"a">>),
                               ImageBlock("A", "png")>>
        /\ Len(sent[s]) = 3
        /\ sent[s][2] = DocumentMsg("converted.docx",
                                    <<<<"paragraph", <<"a">>>>, <<"picture", <<"A", "png">>>>>>)

\* The extraction of the document fails as a whole.
ExtractionFails(u) == ~u.readable \/ HasBadXref(u.pages)

\* C20: the handler of a PDF that cannot be opened, or one of whose images
\* cannot be extracted, never writes the store, delivers no block and sends
\* no prompt: it sends the notice and ends at the failure, the store and the
\* keyboards of the session being what they were when it started.
C20_FailedExtractionStoresNothing ==
    \A s \in Sessions :
        (IsPdfUpload(s) /\ ExtractionFails(upd[s])) =>
            /\ pc[s] \in {"hp_notice", "hp_mime", "hp_open", "hp_page", "failed"}
            /\ store[s] = loc[s].entry_store
            /\ Kinds(s) \subseteq {"notice"}
            /\ Len(sent[s]) <= 1
            /\ pc[s] = "failed" => sent[s] = <<Notice("processing")>>

\* A PDF failed at its second image, its page having a text and an image
\* before that one, in a session that had the blocks of another PDF stored.
C20_Witness ==
    \E s \in Sessions :
        /\ IsPdfUpload(s)
        /\ upd[s].readable
        /\ upd[s].pages[1].text = <<"b">>
        /\ upd[s].pages[1].images = <<"A", BadXref>>
        /\ pc[s] = "failed"
        /\ store[s].has
        /\ Len(store[s].blocks) = 4
        /\ store[s] = loc[s].entry_store

(***************************************************************************)
(* The process from its start: main() in any environment, and the bot at   *)
(* work once run_webhook listens.                                          *)
(***************************************************************************)
InitMain ==
    /\ proc \in {Started(env) : env \in Environments}
    /\ pc = [s \in Sessions |-> "idle"]
    /\ upd = [s \in Sessions |-> NoUpdate]
    /\ loc = [s \in Sessions |-> NoLocals]
    /\ sent = [s \in Sessions |-> <<>>]
    /\ store = [s \in Sessions |-> Absent]
    /\ keyboards = [s \in Sessions |-> NoKeyboards]
    /\ disk = [f \in Paths |-> NoFile]

\* run_webhook is running: updates come in.
Listening == proc.pc = "listening"

NextMain ==
    \/ MainToken
    \/ MainBuild
    \/ MainHost
    \/ MainRun
    \/ \E s \in Sessions :
           \/ Listening /\ StartCommand(s)
           \/ \E u \in Catalogue : Listening /\ Arrive(s, u)
           \/ \E k \in {FullKeyboard, NarrowKeyboard} : \E b \in k :
                  Listening /\ Press(s, k, b)
           \/ Step(s)

SpecMain == InitMain /\ [][NextMain]_vars

\* C18: with the token or the URL missing (not set, or empty) main() logs
\* one error and returns: it never reaches run_webhook, does not end with an
\* exception, and no update is ever handled; a missing token is found before
\* the application is built; the process listens only when both are there.
C18_NoListenerWithoutConfig ==
    LET token == proc.env.TELEGRAM_BOT_TOKEN
        host == proc.env.RENDER_EXTERNAL_URL
    IN  /\ proc.pc = "listening" => (~Falsy(token) /\ ~Falsy(host))
        /\ proc.webhook # <<>> => (proc.pc = "listening" /\ ~Falsy(token) /\ ~Falsy(host))
        /\ Falsy(token) =>
               /\ proc.pc \in {"token", "returned"}
               /\ proc.handlers = <<>>
               /\ proc.log = IF proc.pc = "returned" THEN <<"no_token">> ELSE <<>>
        /\ (~Falsy(token) /\ Falsy(host)) =>
               /\ proc.pc \in {"token", "build", "host", "returned"}
               /\ proc.log = IF proc.pc = "returned" THEN <<"no_url">> ELSE <<>>
        /\ proc.pc # "listening" =>
               /\ \A s \in Sessions : pc[s] = "idle" /\ sent[s] = <<>> /\ store[s] = Absent
               /\ \A f \in Paths : disk[f] = NoFile

\* With the token set and the URL empty, the handlers were added, the error
\* was logged and main() returned.
C18_Witness ==
    /\ proc.env.TELEGRAM_BOT_TOKEN = <<"t">>
    /\ proc.env.RENDER_EXTERNAL_URL = <<"">>
    /\ proc.handlers = Handlers
    /\ proc.log = <<"no_url">>
    /\ proc.pc = "returned"
    /\ proc.webhook = <<>>

(***************************************************************************)
(* The bot at work when a callback query may carry any datum: the datum of *)
(* a query is what the client sends, the button of another version of the  *)
(* bot or another string.                                                  *)
(***************************************************************************)
CallbackData ==
    {<<"download_word">>, <<"start_over">>, <<"download_word", "_v2">>,
     <<"start_over", "_all">>, <<"re", "download_word">>, <<"help">>}

\* A callback query with datum data comes from a message of the chat that
\* has a keyboard; with no handler for it the update is dropped.
PressWith(s, keyboard, data) ==
    /\ Free
    /\ keyboards[s][keyboard] > 0
    /\ Route(data) # "idle"
    /\ Dispatch(s, [kind |-> "callback", data |-> data, keyboard |-> keyboard],
                Route(data))

NextRouter ==
    \/ Next
    \/ \E s \in Sessions : \E k \in {FullKeyboard, NarrowKeyboard} :
           \E data \in CallbackData : PressWith(s, k, data)

SpecRouter == Init /\ [][NextRouter]_vars

\* C19: the download handler runs for a callback query whose datum is
\* download_word and no other, the start-over handler for one whose datum is
\* start_over and no other.
C19_ExactIdentifiers ==
    \A s \in Sessions :
        upd[s].kind = "callback" =>
            /\ pc[s] \in {"dw_answer", "dw_read", "dw_send", "dw_markup"} =>
                   upd[s].data = <<"download_word">>
            /\ pc[s] \in {"so_answer", "so_pop", "so_markup", "so_invite"} =>
                   upd[s].data = <<"start_over">>

====
